---------------------------- MODULE Spec2Model ----------------------------
(***************************************************************************)
(* Model of the HTML-to-PDF conversion service in src/main.py: the Flask   *)
(* handler convert() of POST/OPTIONS /convert, the module-level            *)
(* ThreadPoolExecutor(max_workers=4) and the job process_pdf() it runs.    *)
(*                                                                         *)
(* Every request is served by its own handler thread.  A handler touches   *)
(* shared state in exactly two places: executor.submit (line 177) and      *)
(* future.result(timeout=30) (line 178).  The worker threads of the        *)
(* executor take jobs from its unbounded FIFO queue and run process_pdf.   *)
(***************************************************************************)
EXTENDS Integers, Sequences, FiniteSets, Bags, TLC

(***************************************************************************)
(* Bounds of the exploration and program constants.                        *)
(***************************************************************************)
\* Number of requests a behaviour receives (more than there are workers).
NumReq == 5

\* How many of them may be something else than a POST with an HTML fragment
\* (OPTIONS, unparsable or empty bodies, empty or blank html).
MaxVaried == 1

\* Request IDs: the milliseconds the clock runs through, and the requests
\* that arrive meanwhile
MaxClock == 1
MaxIdReq == 3

\* Longest HTML fragment given to generate_pdf_with_styling, in tokens
MaxTokens == 3

\* ThreadPoolExecutor(max_workers=4)
MaxWorkers == 4

Workers == 1..MaxWorkers

(***************************************************************************)
(* JSON values as request.get_json() returns them.                         *)
(***************************************************************************)
JNull == [t |-> "null"]
JStr(s) == [t |-> "str", v |-> s]
JList(l) == [t |-> "list", v |-> l]
JDict(d) == [t |-> "dict", v |-> d]

EmptyDict == [k \in {} |-> JNull]

\* Python truthiness of a parsed JSON value (None, "", [], {} are falsy).
Truthy(j) ==
    CASE j.t = "null" -> FALSE
      [] j.t = "str"  -> Len(j.v) > 0
      [] j.t = "list" -> Len(j.v) > 0
      [] j.t = "dict" -> DOMAIN j.v # {}

\* dict.get(key, default)
DictGet(d, key, default) == IF key \in DOMAIN d THEN d[key] ELSE default

\* Strings are sequences of characters.  The HTML strings a client sends in
\* the html field: empty, whitespace only, and a fragment.
EmptyHtml == <<>>
BlankHtml == <<" ", "\n">>
RealHtml == <<"<", "h", "1", ">", "H", "i">>

\* str.strip() leaves nothing
IsBlank(s) == \A i \in 1..Len(s) : s[i] \in {" ", "\t", "\n", "\r"}

\* Request bodies.  "malformed" is a body get_json() cannot parse: it raises
\* BadRequest instead of returning a value.
Malformed == [t |-> "malformed"]

Bodies ==
    { Malformed,
      JNull,
      JDict(EmptyDict),
      JList(<<1>>),
      JDict("other" :> JStr(<<"x">>)),
      JDict("html" :> JStr(EmptyHtml)),
      JDict("html" :> JStr(BlankHtml)),
      JDict("html" :> JStr(RealHtml)) }

\* A well-formed conversion request
ValidInput == [method |-> "POST", body |-> JDict("html" :> JStr(RealHtml))]

Inputs ==
    {[method |-> "OPTIONS", body |-> JNull]} \cup
    {[method |-> "POST", body |-> b] : b \in Bodies}

(***************************************************************************)
(* Exceptions and response values.                                         *)
(***************************************************************************)
\* str(e) of the exceptions the handler can see
TimeoutError == [type |-> "TimeoutError", str |-> ""]
AttributeError == [type |-> "AttributeError", str |-> "'list' object has no attribute 'get'"]
BadRequest == [type |-> "BadRequest", str |-> "400 Bad Request"]
RenderError == [type |-> "RenderError", str |-> "render failed"]

\* Rounded millisecond readings are abstracted to one token.
Ms == "ms"

\* The X-Request-ID header; NoHeader when the client sends none.  RequestId
\* is the value the clients send where the request ids are not the subject.
NoHeader == <<>>
RequestId == <<"client-id">>

\* line 157: request.headers.get('X-Request-ID', f'req-{int(time.time()*1000)}')
\* with ms the reading of the clock in milliseconds
RequestIdOf(hdr, ms) == IF hdr # NoHeader THEN hdr ELSE <<"req-", ms>>

CorsOrigin == "Access-Control-Allow-Origin" :> "*"
NoHeaders == [h \in {} |-> ""]

\* The bytes the engine produces and their base64 text.
PdfBytes == <<37, 80, 68, 70>>
B64Encode(bytes) == <<"b64", bytes>>

NoResponse == [status |-> 0, headers |-> NoHeaders, body |-> "success" :> FALSE]
NoResult == "success" :> FALSE

(***************************************************************************)
(* process_pdf: the job a worker runs.  `engine` is what the styling step  *)
(* and HTML(...).write_pdf() do on this call: "ok" returns the PDF bytes,  *)
(* "raise" raises an Exception, which process_pdf catches.                 *)
(***************************************************************************)
EngineOutcomes == {"ok", "raise"}

\* (variant) the failure dict carries an (empty) payload and size as well
ProcessPdfPartialPayload(html_content, request_id, engine) ==
    IF engine = "ok"
    THEN ("success" :> TRUE @@
          "pdf_base64" :> B64Encode(PdfBytes) @@
          "size_bytes" :> Len(PdfBytes) @@
          "processing_time_ms" :> Ms @@
          "request_id" :> request_id)
    ELSE ("success" :> FALSE @@
          "pdf_base64" :> B64Encode(<<>>) @@
          "size_bytes" :> 0 @@
          "error" :> <<RenderError.str>> @@
          "processing_time_ms" :> Ms @@
          "request_id" :> request_id)

ProcessPdf(html_content, request_id, engine) ==
    IF engine = "ok"
    THEN ("success" :> TRUE @@
          "pdf_base64" :> B64Encode(PdfBytes) @@
          "size_bytes" :> Len(PdfBytes) @@
          "processing_time_ms" :> Ms @@
          "request_id" :> request_id)
    ELSE ("success" :> FALSE @@
          "error" :> <<RenderError.str>> @@
          "processing_time_ms" :> Ms @@
          "request_id" :> request_id)

(***************************************************************************)
(* The responses convert() builds.                                         *)
(***************************************************************************)
\* lines 149-154
PreflightResponse ==
    [status |-> 200,
     headers |-> ("Access-Control-Allow-Origin" :> "*" @@
                  "Access-Control-Allow-Methods" :> "POST, OPTIONS" @@
                  "Access-Control-Allow-Headers" :> "Content-Type, Authorization"),
     body |-> "status" :> "ok"]

\* lines 162-166
NoJsonResponse(request_id) ==
    [status |-> 400,
     headers |-> NoHeaders,
     body |-> ("success" :> FALSE @@
               "error" :> <<"No JSON data provided">> @@
               "request_id" :> request_id)]

\* lines 170-174
NoHtmlResponse(request_id) ==
    [status |-> 400,
     headers |-> NoHeaders,
     body |-> ("success" :> FALSE @@
               "error" :> <<"No HTML content provided">> @@
               "request_id" :> request_id)]

\* lines 180-191: the job's dict plus the API timing, default status 200
ResultResponse(res) ==
    [status |-> 200,
     headers |-> CorsOrigin,
     body |-> (res @@ "api_response_time_ms" :> Ms)]

\* (variant) the except branch returns without ", 500"
ServerErrorResponseDefaultStatus(e, request_id) ==
    [status |-> 200,
     headers |-> CorsOrigin,
     body |-> ("success" :> FALSE @@
               "error" :> <<"Server error: ", e.str>> @@
               "request_id" :> request_id @@
               "api_response_time_ms" :> Ms)]

\* lines 193-202
ServerErrorResponse(e, request_id) ==
    [status |-> 500,
     headers |-> CorsOrigin,
     body |-> ("success" :> FALSE @@
               "error" :> <<"Server error: ", e.str>> @@
               "request_id" :> request_id @@
               "api_response_time_ms" :> Ms)]

(***************************************************************************)
(* convert() from its entry to the point where it either returns or has    *)
(* to submit a job: [submit |-> TRUE, html |-> h] or                       *)
(* [submit |-> FALSE, resp |-> response].                                  *)
(***************************************************************************)
Return(response) == [submit |-> FALSE, resp |-> response, html |-> <<>>]
SubmitJob(html) == [submit |-> TRUE, resp |-> NoResponse, html |-> html]

\* (variant) the html field is not checked before the job is submitted
ConvertEntryNoHtmlCheck(in, request_id) ==
    IF in.method = "OPTIONS" THEN Return(PreflightResponse)
    ELSE IF in.body.t = "malformed"
         THEN Return(ServerErrorResponse(BadRequest, request_id))
    ELSE IF ~Truthy(in.body) THEN Return(NoJsonResponse(request_id))
    ELSE IF in.body.t # "dict"
         THEN Return(ServerErrorResponse(AttributeError, request_id))
    ELSE SubmitJob(DictGet(in.body.v, "html", JStr(<<>>)).v)

ConvertEntry(in, request_id) ==
    IF in.method = "OPTIONS" THEN Return(PreflightResponse)
    ELSE IF in.body.t = "malformed"
         THEN Return(ServerErrorResponse(BadRequest, request_id))
    ELSE IF ~Truthy(in.body) THEN Return(NoJsonResponse(request_id))
    ELSE IF in.body.t # "dict"
         THEN Return(ServerErrorResponse(AttributeError, request_id))
    ELSE LET html_content == DictGet(in.body.v, "html", JStr(<<>>))
         IN  IF ~Truthy(html_content)
             THEN Return(NoHtmlResponse(request_id))
             ELSE SubmitJob(html_content.v)


(***************************************************************************)
(* State.  A request in the service is a record                            *)
(*   pc      where its handler thread is: "waiting" (blocked in              *)
(*           future.result) or "done" (response sent)                      *)
(*   req     what the client sent                                          *)
(*   resp    the response sent (NoResponse while waiting)                  *)
(*   fstate  the future of its job: "none" (nothing submitted), "PENDING", *)
(*           "RUNNING", "FINISHED"                                         *)
(*   slot    the worker thread running its job, 0 when none does           *)
(*   result  the dict process_pdf returned (NoResult before it has)        *)
(*   hdr     the X-Request-ID header the client sent, or NoHeader          *)
(*   rid     the handler's request_id (line 157)                           *)
(*   renders how many times the render engine was invoked for it           *)
(* The handler's locals give a request no identity beyond these values, so *)
(* the requests are kept as a bag; those whose job no worker has taken yet *)
(* are kept in the order of executor._work_queue.                          *)
(***************************************************************************)
VARIABLES
    queue,    \* requests whose job is in executor._work_queue, oldest first
    active,   \* all other requests received so far (a bag)
    phase,    \* "starting" (module being imported) or "serving"
    warmup,   \* the startup self-test: "none" (not run yet), "ok", "failed"
    health,   \* the last response of GET /health (NoResponse before any)
    now,      \* time.time() in milliseconds
    doc,      \* generate_pdf_with_styling: the html_content it is given,
    styled,   \*   what it returns for doc,
    restyled  \*   and what it returns for that again

vars == <<queue, active>>
others == <<phase, warmup, health, now, doc, styled, restyled>>
allvars == <<vars, others>>

\* No document has been given to generate_pdf_with_styling
NoDoc == <<[k |-> "none"]>>

\* The executor is new: no request has been received
NoRequests ==
    /\ queue = <<>>
    /\ active = EmptyBag

\* The service is up after a successful warm-up.
Serving ==
    /\ phase = "serving"
    /\ warmup = "ok"
    /\ health = NoResponse
    /\ now = 0
    /\ doc = NoDoc /\ styled = NoDoc /\ restyled = NoDoc

Init == NoRequests /\ Serving

Queued == {queue[i] : i \in 1..Len(queue)}
Requests == Queued \cup BagToSet(active)
Received == Len(queue) + BagCardinality(active)

\* How many of the requests received are not a well-formed conversion
NumVaried ==
    Cardinality({i \in 1..Len(queue) : queue[i].req # ValidInput}) +
    BagCardinality([h \in {x \in BagToSet(active) : x.req # ValidInput} |-> active[h]])

Replace(bag, old, new) == (bag (-) SetToBag({old})) (+) SetToBag({new})

\* executor.submit: the work item goes to the end of the unbounded queue
Enqueue(q, h) == Append(q, h)

\* (variant) every worker counts as idle, busy or not
IdleWorkersIgnoringBusy == Workers

\* Worker threads that are not inside a job
IdleWorkers == {w \in Workers : \A h \in BagToSet(active) : h.slot # w}

\* (variant) the 30 s only count once the job has started
TimeoutOnlyWhileRunning(h) == h.fstate = "RUNNING"

\* future.result(timeout=30) raises TimeoutError when the 30 s pass and the
\* future is not finished
TimeoutCanExpire(h) == h.fstate # "FINISHED"

(***************************************************************************)
(* convert(), lines 146-177: a request is received and handled up to its   *)
(* first return or up to executor.submit.                                  *)
(***************************************************************************)
Receive(in, hdr, ms) ==
    LET request_id == RequestIdOf(hdr, ms)
        step == ConvertEntry(in, request_id)
        h == [pc |-> IF step.submit THEN "waiting" ELSE "done",
              req |-> in,
              resp |-> step.resp,
              fstate |-> IF step.submit THEN "PENDING" ELSE "none",
              slot |-> 0,
              result |-> NoResult,
              hdr |-> hdr,
              rid |-> request_id,
              renders |-> 0]
    IN  IF step.submit
        THEN /\ queue' = Enqueue(queue, h)
             /\ active' = active
        ELSE /\ active' = active (+) SetToBag({h})
             /\ queue' = queue

ConvertBegin(in) ==
    /\ Received < NumReq
    /\ (in = ValidInput) \/ (NumVaried < MaxVaried)
    /\ Receive(in, RequestId, now)
    /\ UNCHANGED others

\* (variant) future.result returns while the job is still running
ConvertResultEarly(h) ==
    /\ BagIn(h, active)
    /\ h.pc = "waiting"
    /\ h.fstate \in {"RUNNING", "FINISHED"}
    /\ active' = Replace(active, h,
                     [h EXCEPT !.pc = "done", !.resp = ResultResponse(h.result)])
    /\ queue' = queue
    /\ UNCHANGED others

\* convert(), lines 178-191: future.result returns the job's dict
ConvertResult(h) ==
    /\ BagIn(h, active)
    /\ h.pc = "waiting"
    /\ h.fstate = "FINISHED"
    /\ active' = Replace(active, h,
                     [h EXCEPT !.pc = "done", !.resp = ResultResponse(h.result)])
    /\ queue' = queue
    /\ UNCHANGED others

\* (variant) the handler cancels the future when it gives up
TimedOutAndCancelled(h) ==
    [h EXCEPT !.pc = "done",
              !.resp = ServerErrorResponse(TimeoutError, h.rid),
              !.fstate = IF @ = "PENDING" THEN "CANCELLED" ELSE @]

\* convert(), lines 178, 193-202: future.result raises TimeoutError, the
\* handler answers 500; the future is left as it is (no cancel), whether
\* its job is still in the queue or on a worker
TimedOut(h) ==
    [h EXCEPT !.pc = "done",
              !.resp = ServerErrorResponse(TimeoutError, h.rid)]

ConvertTimeout ==
    \/ \E i \in 1..Len(queue) :
          /\ queue[i].pc = "waiting"
          /\ TimeoutCanExpire(queue[i])
          /\ queue' = [queue EXCEPT ![i] = TimedOut(queue[i])]
          /\ active' = active
          /\ UNCHANGED others
    \/ \E h \in BagToSet(active) :
          /\ h.pc = "waiting"
          /\ TimeoutCanExpire(h)
          /\ active' = Replace(active, h, TimedOut(h))
          /\ queue' = queue
          /\ UNCHANGED others

(***************************************************************************)
(* The executor's worker threads.                                          *)
(***************************************************************************)
\* (variant) a worker drops a work item whose caller has given up
WorkerStartSkipAbandoned(w) ==
    /\ w \in IdleWorkers
    /\ \A v \in IdleWorkers : w <= v
    /\ queue # <<>>
    /\ active' = active (+)
                   SetToBag({IF Head(queue).pc = "done"
                             THEN [Head(queue) EXCEPT !.fstate = "CANCELLED"]
                             ELSE [Head(queue) EXCEPT !.fstate = "RUNNING",
                                                      !.slot = w,
                                                      !.renders = @ + 1]})
    /\ queue' = Tail(queue)
    /\ UNCHANGED others

\* An idle worker takes the oldest work item and starts process_pdf, which
\* invokes the engine (lines 113-116).  The worker threads are
\* interchangeable: of the idle ones the one with the lowest number takes
\* the item.
WorkerStart(w) ==
    /\ w \in IdleWorkers
    /\ \A v \in IdleWorkers : w <= v
    /\ queue # <<>>
    /\ active' = active (+)
                   SetToBag({[Head(queue) EXCEPT !.fstate = "RUNNING",
                                                !.slot = w,
                                                !.renders = @ + 1]})
    /\ queue' = Tail(queue)
    /\ UNCHANGED others

\* (variant) a render that raised is run once more before the job fails
WorkerFinishRetry(h, engine) ==
    /\ BagIn(h, active)
    /\ h.fstate = "RUNNING"
    /\ active' = Replace(active, h,
                     IF engine = "raise" /\ h.renders < 2
                     THEN [h EXCEPT !.renders = @ + 1]
                     ELSE [h EXCEPT !.fstate = "FINISHED",
                                    !.slot = 0,
                                    !.result = ProcessPdf(h.req.body.v["html"].v,
                                                          h.rid, engine)])
    /\ queue' = queue
    /\ UNCHANGED others

\* (variant) an exception of the engine ends the worker thread, which
\* stays taken by the job
WorkerFinishLosesSlot(h, engine) ==
    /\ BagIn(h, active)
    /\ h.fstate = "RUNNING"
    /\ active' = Replace(active, h,
                     [h EXCEPT !.fstate = "FINISHED",
                               !.slot = IF engine = "raise" THEN @ ELSE 0,
                               !.result = ProcessPdf(h.req.body.v["html"].v,
                                                     h.rid, engine)])
    /\ queue' = queue
    /\ UNCHANGED others

\* process_pdf returns (the engine returned or raised); the future is set
\* and the worker is idle again
WorkerFinish(h, engine) ==
    /\ BagIn(h, active)
    /\ h.fstate = "RUNNING"
    /\ active' = Replace(active, h,
                     [h EXCEPT !.fstate = "FINISHED",
                               !.slot = 0,
                               !.result = ProcessPdf(h.req.body.v["html"].v,
                                                     h.rid, engine)])
    /\ queue' = queue
    /\ UNCHANGED others

Next ==
    \/ \E in \in Inputs : ConvertBegin(in)
    \/ \E h \in BagToSet(active) : ConvertResult(h)
    \/ ConvertTimeout
    \/ \E w \in Workers : WorkerStart(w)
    \/ \E h \in BagToSet(active), engine \in EngineOutcomes : WorkerFinish(h, engine)

Spec == Init /\ [][Next]_allvars

\* The behaviours in which every client sends a well-formed conversion
\* request.  Only these requests make a handler wait: any other request is
\* answered within the step that receives it.
LoadNext ==
    \/ ConvertBegin(ValidInput)
    \/ \E h \in BagToSet(active) : ConvertResult(h)
    \/ ConvertTimeout
    \/ \E w \in Workers : WorkerStart(w)
    \/ \E h \in BagToSet(active), engine \in EngineOutcomes : WorkerFinish(h, engine)

\* Every handler thread keeps running: a handler blocked in future.result
\* is woken by the result or by the expiry of its 30 s timeout.  Nothing is
\* assumed of the workers and of the render engine, which may never return.
FairSpec ==
    /\ Init /\ [][LoadNext]_allvars
    /\ WF_vars(ConvertTimeout \/ \E h \in BagToSet(active) : ConvertResult(h))

\* The executor's worker threads keep running: an idle worker blocked on
\* the work queue takes the next item, and every render returns.  Nothing
\* is assumed of the handler threads.
RenderFairSpec ==
    /\ Init /\ [][LoadNext]_allvars
    /\ WF_vars(\E w \in Workers : WorkerStart(w))
    /\ WF_vars(\E h \in BagToSet(active), engine \in EngineOutcomes :
                  WorkerFinish(h, engine))

(***************************************************************************)
(* Startup (lines 16-27) and GET /health (lines 135-143).                  *)
(***************************************************************************)
\* lines 19-24: the warm-up renders a fixed document; an Exception of the
\* engine is caught and logged
WarmupResult(engine) == IF engine = "ok" THEN "ok" ELSE "failed"

\* (variant) a failed warm-up ends the process
PhaseAfterWarmupFatal(result) == IF result = "ok" THEN "serving" ELSE "down"

\* lines 23-27: the except branch only logs; the module goes on to create
\* the executor and the routes whatever the warm-up did
PhaseAfterWarmup(result) == "serving"

Warmup(engine) ==
    /\ phase = "starting"
    /\ warmup' = WarmupResult(engine)
    /\ phase' = PhaseAfterWarmup(WarmupResult(engine))
    /\ UNCHANGED <<vars, health, now, doc, styled, restyled>>

\* lines 138-143
HealthResponse ==
    [status |-> 200,
     headers |-> NoHeaders,
     body |-> ("status" :> "healthy" @@
               "timestamp" :> "utcnow" @@
               "service" :> "saas-pdf-api" @@
               "version" :> "1.0.0")]

Health ==
    /\ phase = "serving"
    /\ health' = HealthResponse
    /\ UNCHANGED <<vars, phase, warmup, now, doc, styled, restyled>>

\* /convert is served once the module is imported
ServeConvert == phase = "serving" /\ LoadNext

StartupInit ==
    /\ NoRequests
    /\ phase = "starting"
    /\ warmup = "none"
    /\ health = NoResponse
    /\ now = 0
    /\ doc = NoDoc /\ styled = NoDoc /\ restyled = NoDoc

StartupNext ==
    \/ \E engine \in EngineOutcomes : Warmup(engine)
    \/ Health
    \/ ServeConvert

StartupSpec == StartupInit /\ [][StartupNext]_allvars

(***************************************************************************)
(* Requests without HTML arriving on top of a full load of conversions.    *)
(***************************************************************************)
\* POST bodies whose html is missing or empty
RejectedInputs ==
    {[method |-> "POST", body |-> b] :
        b \in {JDict(EmptyDict),
                JDict("other" :> JStr(<<"x">>)),
                JDict("html" :> JStr(EmptyHtml))}}

\* Such a request is received whatever the number of conversions under way
ConvertRejected(in) ==
    /\ NumVaried < MaxVaried
    /\ Receive(in, RequestId, now)
    /\ UNCHANGED others

OverloadNext ==
    \/ LoadNext
    \/ \E in \in RejectedInputs : ConvertRejected(in)

OverloadSpec == Init /\ [][OverloadNext]_allvars

(***************************************************************************)
(* Request IDs (lines 156-157).  The wall clock advances in milliseconds;   *)
(* a request arrives with or without an X-Request-ID header, at whatever   *)
(* millisecond the clock shows.  Handler threads run concurrently, so any  *)
(* number of requests can read the same millisecond.                       *)
(***************************************************************************)
Headers == {NoHeader, RequestId}

\* time.time() moves on
Tick ==
    /\ now < MaxClock
    /\ now' = now + 1
    /\ UNCHANGED <<vars, phase, warmup, health, doc, styled, restyled>>

\* lines 156-157 and on: request_start = time.time(), request_id from the
\* header or from int(request_start * 1000)
ConvertArrive(hdr) ==
    /\ Received < MaxIdReq
    /\ Receive(ValidInput, hdr, now)
    /\ UNCHANGED others

PoolNext ==
    \/ \E h \in BagToSet(active) : ConvertResult(h)
    \/ ConvertTimeout
    \/ \E w \in Workers : WorkerStart(w)
    \/ \E h \in BagToSet(active), engine \in EngineOutcomes : WorkerFinish(h, engine)

IdNext ==
    \/ Tick
    \/ \E hdr \in Headers : ConvertArrive(hdr)
    \/ PoolNext

IdSpec == Init /\ [][IdNext]_allvars

(***************************************************************************)
(* generate_pdf_with_styling (lines 29-106).  An HTML text is a sequence   *)
(* of lexical tokens: start tags, end tags, text, and <link> tags.         *)
(* BeautifulSoup(html, 'html.parser') builds a tree, kept here as the      *)
(* balanced sequence of its nodes in document order; str(soup) writes the  *)
(* tree back as text.                                                      *)
(***************************************************************************)
Open(n) == [k |-> "open", n |-> n]
Close(n) == [k |-> "close", n |-> n]
Text(n) == [k |-> "text", n |-> n]
\* <link rel="..."> as a client writes it, <link rel="..."/> as str(soup)
\* writes it
Link(rel) == [k |-> "void", n |-> "link", rel |-> rel]
LinkClosed(rel) == [k |-> "selfclosed", n |-> "link", rel |-> rel]
\* a piece of text inside <style>, which the parser does not tokenize
Raw(t) == [k |-> "raw", src |-> t]

\* the stylesheet of lines 37-97
Css == Text("@page ...")

Tokens ==
    {Open("head"), Close("head"), Open("p"), Close("p"), Text("Hi"),
     Open("style"), Close("style"), Link("stylesheet"), Link("icon")}

Docs == UNION {[1..n -> Tokens] : n \in 1..MaxTokens}

Last(st) == st[Len(st)]
Front(st) == SubSeq(st, 1, Len(st) - 1)

\* the end tags of the open elements in st, innermost first
RECURSIVE CloseAll(_)
CloseAll(st) ==
    IF st = <<>> THEN <<>> ELSE <<Close(Last(st))>> \o CloseAll(Front(st))

\* BeautifulSoup._popToTag: the open elements are closed down to and
\* including the innermost one named n
RECURSIVE PopToTag(_, _)
PopToTag(st, n) ==
    IF Last(st) = n
    THEN [out |-> <<Close(n)>>, st |-> Front(st)]
    ELSE LET r == PopToTag(Front(st), n)
         IN  [out |-> <<Close(Last(st))>> \o r.out, st |-> r.st]

IsOpenIn(st, n) == \E i \in 1..Len(st) : st[i] = n

\* html.parser feeding the tree builder: st is the stack of open elements.
\* After <style> the parser is in CDATA mode until </style>; an end tag
\* with no open element of its name is ignored; <link> is a void element;
\* at the end of the input every open element is closed.
RECURSIVE ParseFrom(_, _, _)
ParseFrom(html, i, st) ==
    IF i > Len(html) THEN CloseAll(st)
    ELSE LET t == html[i]
         IN  IF st # <<>> /\ Last(st) = "style"
             THEN IF t = Close("style")
                  THEN <<t>> \o ParseFrom(html, i + 1, Front(st))
                  ELSE <<Raw(t)>> \o ParseFrom(html, i + 1, st)
             ELSE IF t.k = "open"
                  THEN <<t>> \o ParseFrom(html, i + 1, Append(st, t.n))
             ELSE IF t.k = "close"
                  THEN IF IsOpenIn(st, t.n)
                       THEN LET r == PopToTag(st, t.n)
                            IN  r.out \o ParseFrom(html, i + 1, r.st)
                       ELSE ParseFrom(html, i + 1, st)
             ELSE IF t.k \in {"void", "selfclosed"}
                  THEN <<Link(t.rel)>> \o ParseFrom(html, i + 1, st)
             ELSE <<t>> \o ParseFrom(html, i + 1, st)

\* BeautifulSoup(html_content, 'html.parser'), line 34
BeautifulSoup(html) == ParseFrom(html, 1, <<>>)

\* str(soup), line 104
RECURSIVE Str(_)
Str(soup) ==
    IF soup = <<>> THEN <<>>
    ELSE LET node == Head(soup)
             t == IF node.k = "raw" THEN node.src
                  ELSE IF node.k = "void" THEN LinkClosed(node.rel)
                  ELSE node
         IN  <<t>> \o Str(Tail(soup))

\* soup.find(name): index of the first element of that name, 0 for None
Find(soup, n) ==
    IF \E i \in 1..Len(soup) : soup[i] = Open(n)
    THEN CHOOSE i \in 1..Len(soup) :
             /\ soup[i] = Open(n)
             /\ \A j \in 1..(i - 1) : soup[j] # Open(n)
    ELSE 0

\* soup.find('link', rel='stylesheet') is not None
FindStylesheetLink(soup) == \E i \in 1..Len(soup) : soup[i] = Link("stylesheet")

\* index of the end of the element that starts at index i
RECURSIVE EndFrom(_, _, _)
EndFrom(soup, j, depth) ==
    IF soup[j].k = "open" THEN EndFrom(soup, j + 1, depth + 1)
    ELSE IF soup[j].k = "close"
         THEN IF depth = 1 THEN j ELSE EndFrom(soup, j + 1, depth - 1)
    ELSE EndFrom(soup, j + 1, depth)

EndOf(soup, i) == EndFrom(soup, i + 1, 1)

\* lines 36-37: the new <style> element with its string
StyleTag == <<Open("style"), Raw(Css), Close("style")>>

\* (variant) the styling is added whether or not the document has CSS
HasCssNever(soup) == FALSE

\* line 35: soup.find('style') or soup.find('link', rel='stylesheet')
HasCss(soup) == Find(soup, "style") # 0 \/ FindStylesheetLink(soup)

\* lines 98-103: tag.append(new) puts new last among the children of the
\* element at index i; soup.insert(0, new) puts it first in the document
AppendTo(soup, i, new) ==
    LET e == EndOf(soup, i)
    IN  SubSeq(soup, 1, e - 1) \o new \o SubSeq(soup, e, Len(soup))

InsertFirst(soup, new) == new \o soup

generate_pdf_with_styling(html_content) ==
    LET soup == BeautifulSoup(html_content)
    IN  IF ~HasCss(soup)
        THEN LET head == Find(soup, "head")
             IN  IF head # 0
                 THEN Str(AppendTo(soup, head, StyleTag))
                 ELSE Str(InsertFirst(soup,
                              <<Open("head")>> \o StyleTag \o <<Close("head")>>))
        ELSE html_content

\* The function applied to a fragment, then to its own output
Normalize ==
    /\ styled = NoDoc
    /\ styled' = generate_pdf_with_styling(doc)
    /\ UNCHANGED <<vars, phase, warmup, health, now, doc, restyled>>

Renormalize ==
    /\ styled # NoDoc
    /\ restyled = NoDoc
    /\ restyled' = generate_pdf_with_styling(styled)
    /\ UNCHANGED <<vars, phase, warmup, health, now, doc, styled>>

StyleInit ==
    /\ NoRequests
    /\ phase = "serving" /\ warmup = "ok" /\ health = NoResponse /\ now = 0
    /\ doc \in Docs
    /\ styled = NoDoc /\ restyled = NoDoc

StyleNext == Normalize \/ Renormalize

StyleSpec == StyleInit /\ [][StyleNext]_allvars

(***************************************************************************)
(* Properties.                                                             *)
(***************************************************************************)
IsPost(h) == h.req.method = "POST"
Answered(h) == h.pc = "done"
HasHtmlField(h) ==
    /\ IsPost(h)
    /\ h.req.body.t = "dict"
    /\ "html" \in DOMAIN h.req.body.v
HtmlField(h) == h.req.body.v["html"].v

\* The requests whose job is on a worker, with their multiplicities
Running == {h \in BagToSet(active) : h.fstate = "RUNNING"}
NumRunning == BagCardinality([h \in Running |-> active[h]])

\* The response of lines 193-202 to a TimeoutError
IsTimeoutResponse(response) ==
    /\ response.status = 500
    /\ response.body["success"] = FALSE
    /\ response.body["error"] = <<"Server error: ", TimeoutError.str>>

\* C1: every POST /convert whose html field is empty or whitespace-only is
\* answered 400 and no job of it is ever submitted to the executor.
C1_BlankHtmlRejected ==
    \A h \in Requests :
        (HasHtmlField(h) /\ IsBlank(HtmlField(h)))
            => /\ h.fstate = "none"
               /\ Answered(h) /\ h.resp.status = 400

\* C2: at most 4 renders execute at the same time, each on a worker thread
\* of its own: no worker runs two jobs at once.
C2_AtMostFourRenders ==
    /\ NumRunning <= MaxWorkers
    /\ \A h \in Running :
          /\ h.slot \in Workers
          /\ active[h] = 1
          /\ \A g \in Running : (g # h) => (g.slot # h.slot)
    /\ \A h \in Requests : (h.slot # 0) => (h.fstate = "RUNNING")

C2_Witness ==
    /\ NumRunning = MaxWorkers
    /\ Len(queue) >= 1

C4_TimeoutAnswered ==
    \A h \in Requests :
        (Answered(h) /\ h.fstate \in {"PENDING", "RUNNING"}) =>
            /\ h.resp.body["success"] = FALSE
            /\ h.resp.status \in {504, 500}
            /\ (h.fstate = "RUNNING") =>
                  (h.slot \in Workers /\ h.slot \notin IdleWorkers)

C4_Witness ==
    \E h \in BagToSet(active) :
        Answered(h) /\ h.fstate = "RUNNING" /\ h.resp.status = 500

\* C5: every request received is eventually answered, whatever the render
\* engine does, and an answer once sent stays as it is.
RECURSIVE SentFromQueue(_)
SentFromQueue(i) ==
    IF i = 0 THEN EmptyBag
    ELSE SentFromQueue(i - 1) (+)
         (IF Answered(queue[i]) THEN SetToBag({queue[i].resp}) ELSE EmptyBag)

RECURSIVE SentFrom(_)
SentFrom(S) ==
    IF S = {} THEN EmptyBag
    ELSE LET h == CHOOSE x \in S : TRUE
         IN  SentFrom(S \ {h}) (+) [r \in {h.resp} |-> active[h]]

\* The bag of the responses sent so far
Sent ==
    SentFromQueue(Len(queue)) (+)
    SentFrom({h \in BagToSet(active) : Answered(h)})

AllAnswered == \A h \in Requests : Answered(h)

C5_EveryRequestAnswered ==
    /\ <>[]AllAnswered
    /\ [][Sent \sqsubseteq Sent']_vars

C5_Witness ==
    /\ IdleWorkers = {}
    /\ \E i \in 1..Len(queue) : Answered(queue[i])
    /\ \A h \in Running : ~Answered(h)

\* C6: whenever the render engine raised for a request, its response has
\* success=false and status 500.
C6_EngineFailureIs500 ==
    \A h \in Requests :
        (Answered(h) /\ h.fstate = "FINISHED" /\ ~h.result["success"]) =>
            (h.resp.body["success"] = FALSE /\ h.resp.status = 500)

\* C7: in every response to a POST /convert the payload and the size are
\* present iff success is true, the error iff success is false.
C7_PayloadIffSuccess ==
    \A h \in Requests :
        (Answered(h) /\ IsPost(h)) =>
            LET b == h.resp.body
            IN  /\ "success" \in DOMAIN b
                /\ ("pdf_base64" \in DOMAIN b) <=> b["success"]
                /\ ("size_bytes" \in DOMAIN b) <=> b["success"]
                /\ ("error" \in DOMAIN b) <=> ~b["success"]

\* success, engine failure, timeout and validation failure side by side
C7_Witness ==
    /\ \E h \in Requests :
          Answered(h) /\ IsPost(h) /\ h.resp.body["success"]
    /\ \E h \in Requests :
          /\ Answered(h) /\ IsPost(h)
          /\ h.resp.status = 200 /\ ~h.resp.body["success"]
    /\ \E h \in Requests : Answered(h) /\ IsPost(h) /\ h.resp.status = 400
    /\ \E h \in Requests :
          Answered(h) /\ IsPost(h) /\ IsTimeoutResponse(h.resp)

\* C8: every failure response to a POST /convert carries a timing field.
C8_FailuresCarryTiming ==
    \A h \in Requests :
        (Answered(h) /\ IsPost(h) /\ ~h.resp.body["success"]) =>
            \/ "processing_time_ms" \in DOMAIN h.resp.body
            \/ "api_response_time_ms" \in DOMAIN h.resp.body

\* C9: every response on /convert carries Access-Control-Allow-Origin: *.
C9_EveryResponseHasCors ==
    \A h \in Requests :
        Answered(h) =>
            /\ "Access-Control-Allow-Origin" \in DOMAIN h.resp.headers
            /\ h.resp.headers["Access-Control-Allow-Origin"] = "*"

\* C10: a POST /convert with body {} is answered success=false, status 400,
\* with an error that reports the missing HTML content.
C10_EmptyObjectReportsMissingHtml ==
    \A h \in Requests :
        (Answered(h) /\ IsPost(h) /\ h.req.body = JDict(EmptyDict)) =>
            /\ h.resp.body["success"] = FALSE
            /\ h.resp.status = 400
            /\ h.resp.body["error"] = <<"No HTML content provided">>

\* C11: after a failed startup self-test every GET /health is answered and
\* reports a degraded status, not a healthy one.
C11_HealthReportsDegraded ==
    (warmup = "failed" /\ phase = "serving") =>
        /\ ENABLED Health
        /\ (health.status # 0) =>
              /\ health.status = 200
              /\ health.body["status"] # "healthy"

\* C12: a failed startup self-test is not fatal: the service is serving
\* and a valid POST /convert is still received, submitted to the executor
\* and rendered.
C12_FailedWarmupNotFatal ==
    (warmup = "failed") =>
        /\ phase = "serving"
        /\ (Received < NumReq) => ENABLED ServeConvert
        /\ \A h \in Requests :
              (h.req = ValidInput) => (h.fstate # "none")
        /\ (queue # <<>> /\ IdleWorkers # {}) =>
              ENABLED (\E w \in Workers : WorkerStart(w))

C12_Witness ==
    /\ warmup = "failed"
    /\ \E h \in BagToSet(active) : h.req = ValidInput /\ h.renders = 1

\* C13: a POST /convert with missing or empty html is answered 400 within
\* the step that receives it, whatever the state of the worker pool: it
\* neither enters the executor's queue nor waits.
C13_ValidationNeverWaits ==
    [][(NumVaried' > NumVaried) =>
          /\ queue' = queue
          /\ \E h \in BagToSet(active') :
                /\ active' = active (+) SetToBag({h})
                /\ Answered(h)
                /\ h.resp.status = 400
                /\ h.fstate = "none"]_allvars

\* The 400 was sent with every worker occupied and a job waiting
C13_Witness ==
    /\ Received = NumReq + 1
    /\ NumRunning = MaxWorkers
    /\ queue # <<>>
    /\ \A h \in Running : ~Answered(h)
    /\ \E h \in BagToSet(active) : h.req \in RejectedInputs /\ h.resp.status = 400

\* C14 as claimed: on every branch, timeout included, the response of a
\* request that passed validation is sent only after its normalize and
\* render steps have happened.
C14_ResponseAfterRender ==
    \A h \in Requests :
        (Answered(h) /\ h.fstate # "none") =>
            (h.fstate = "FINISHED" /\ h.renders = 1)

\* C14 amended: a job is submitted only for a request that passed
\* validation, and a response that is not the one of the timeout is sent
\* only after process_pdf (normalize, then render) has returned, carrying
\* its outcome; the response of the timeout is sent without the job.
C14_OrderExceptTimeout ==
    \A h \in Requests :
        /\ (h.fstate # "none") =>
              /\ IsPost(h) /\ HasHtmlField(h)
              /\ Len(HtmlField(h)) > 0
        /\ (h.renders > 0) => (h.fstate \in {"RUNNING", "FINISHED"})
        /\ (Answered(h) /\ h.fstate # "none" /\ ~IsTimeoutResponse(h.resp)) =>
              /\ h.fstate = "FINISHED"
              /\ h.renders = 1
              /\ h.resp.body["success"] = h.result["success"]
              /\ h.resp.body["processing_time_ms"] = h.result["processing_time_ms"]

C14_Witness ==
    /\ \E h \in BagToSet(active) :
          Answered(h) /\ h.fstate = "FINISHED" /\ h.resp.body["success"]
    /\ \E i \in 1..Len(queue) :
          Answered(queue[i]) /\ IsTimeoutResponse(queue[i].resp)

\* How many requests in the service carry the request ID rid
NumWithId(rid) ==
    Cardinality({i \in 1..Len(queue) : queue[i].rid = rid})
        + BagCardinality([h \in {g \in BagToSet(active) : g.rid = rid} |-> active[h]])

\* C15 as claimed: two requests without an X-Request-ID header never get
\* the same request ID, even at the same clock millisecond, and a request
\* with the header is answered with the ID of its header.
C15_RequestIdsUnique ==
    \A h \in Requests :
        /\ (h.hdr = NoHeader) => (NumWithId(h.rid) = 1)
        /\ (h.hdr # NoHeader) =>
              /\ h.rid = h.hdr
              /\ Answered(h) => (h.resp.body["request_id"] = h.hdr)

\* The text has no style block and no stylesheet link
NoCss(html) ==
    \A i \in 1..Len(html) :
        /\ html[i] # Open("style")
        /\ ~(html[i].k \in {"void", "selfclosed"} /\ html[i].rel = "stylesheet")

\* The style elements of a document, by the index of their start tag
StyleBlocks(soup) == {i \in 1..Len(soup) : soup[i] = Open("style")}

\* The element that starts at index i lies inside a head element
InsideHead(soup, i) ==
    \E j \in 1..(i - 1) : soup[j] = Open("head") /\ EndOf(soup, j) > i

\* C16: for a non-empty fragment without style block and stylesheet link,
\* the output of generate_pdf_with_styling has exactly one style block, the
\* injected one, inside a head section, and a second application returns
\* that output unchanged.
C16_StylingInjectedOnce ==
    (NoCss(doc) /\ styled # NoDoc) =>
        LET soup == BeautifulSoup(styled)
        IN  /\ Cardinality(StyleBlocks(soup)) = 1
            /\ \A i \in StyleBlocks(soup) :
                  /\ InsideHead(soup, i)
                  /\ SubSeq(soup, i, i + 2) = StyleTag
            /\ (restyled # NoDoc) => (restyled = styled)

C16_Witness ==
    /\ NoCss(doc)
    /\ Len(doc) = MaxTokens
    /\ \E i \in 1..Len(doc) : doc[i] = Open("head")
    /\ \E i \in 1..Len(doc) : doc[i] = Close("p")
    /\ Str(BeautifulSoup(doc)) # doc
    /\ restyled = styled
    /\ Len(restyled) > Len(doc) + 3

\* C17: the render engine is invoked at most once for a request, whether
\* the render succeeds, fails or outlives the handler's timeout: it has
\* been invoked exactly once when a worker has taken the job, and not at
\* all before.
C17_RenderedAtMostOnce ==
    \A h \in Requests :
        /\ h.renders <= 1
        /\ (h.renders = 1) <=> (h.fstate \in {"RUNNING", "FINISHED"})

C17_Witness ==
    /\ \E h \in BagToSet(active) :
          /\ Answered(h) /\ h.fstate = "FINISHED" /\ h.renders = 1
          /\ ~IsTimeoutResponse(h.resp) /\ ~h.resp.body["success"]
    /\ \E h \in BagToSet(active) :
          /\ Answered(h) /\ h.fstate = "FINISHED" /\ h.renders = 1
          /\ IsTimeoutResponse(h.resp) /\ ~h.result["success"]
    /\ \E h \in BagToSet(active) :
          /\ Answered(h) /\ h.renders = 1 /\ h.resp.body["success"]

\* The jobs that ended with the failure dict of process_pdf
Failed == {h \in BagToSet(active) : h.fstate = "FINISHED" /\ ~h.result["success"]}

\* C18: busy workers + free workers = 4 in every reachable state; a worker
\* is taken exactly by a running job, so the worker of a job that ended,
\* with a PDF or with an engine failure, is free again, and all 4 workers
\* are free when no render is running.
C18_NoWorkerLost ==
    /\ NumRunning + Cardinality(IdleWorkers) = MaxWorkers
    /\ \A h \in Requests : (h.slot \in Workers) <=> (h.fstate = "RUNNING")
    /\ \A h \in Requests : (h.slot # 0) => (h.slot \in Workers)
    /\ (NumRunning = 0) => (IdleWorkers = Workers)

C18_Witness ==
    /\ BagCardinality([h \in Failed |-> active[h]]) >= MaxWorkers
    /\ NumRunning = 0
    /\ IdleWorkers = Workers
    /\ queue # <<>>

\* A job is waiting in the queue for a request that has been answered
AbandonedInQueue == \E i \in 1..Len(queue) : Answered(queue[i])

\* What a step does to the work queue: a new item at the tail; or items
\* whose handler gives up, which keep their place and stay pending; or the
\* oldest item taken by a worker, which starts its render
QueueStep ==
    \/ queue' = queue
    \/ \E h \in Requests' : queue' = Append(queue, h)
    \/ /\ Len(queue') = Len(queue)
       /\ \A i \in 1..Len(queue) :
              queue'[i] = [queue[i] EXCEPT !.pc = queue'[i].pc,
                                           !.resp = queue'[i].resp]
    \/ /\ queue # <<>>
       /\ queue' = Tail(queue)
       /\ \E w \in Workers :
              active' = active (+)
                  SetToBag({[Head(queue) EXCEPT !.fstate = "RUNNING",
                                                !.slot = w,
                                                !.renders = 1]})

\* C19: an accepted job is never cancelled.  A job whose caller timed out
\* while it was in the queue stays there as a pending job, and when the
\* running renders return it is taken in submission order and rendered for
\* its already answered request: no abandoned job stays in the queue
\* forever, and a job leaves the queue only by being started.
C19_AbandonedJobStillRuns ==
    /\ [][QueueStep]_vars
    /\ [](\A i \in 1..Len(queue) : queue[i].fstate = "PENDING")
    /\ [](\A h \in Requests : h.fstate # "CANCELLED")
    /\ AbandonedInQueue ~> ~AbandonedInQueue

C19_Witness ==
    /\ Len(queue) >= 2
    /\ Answered(queue[1]) /\ IsTimeoutResponse(queue[1].resp)
    /\ queue[1].fstate = "PENDING" /\ queue[1].renders = 0
    /\ ~Answered(queue[2])
    /\ \E h \in BagToSet(active) : h.fstate = "FINISHED"
    /\ ENABLED (\E w \in Workers : WorkerStart(w))

=============================================================================
